---------------------------- MODULE Spec2Model ----------------------------
(***************************************************************************)
(* A model of anypp (src/src/anypp/cli.py): the conversion of named 3D     *)
(* points between the MeshLab pick-points XML form and AnyScript text.     *)
(*                                                                         *)
(* Text is a sequence of characters; a character is a one-character        *)
(* string, except that a non-ASCII character is written by its code point  *)
(* ("U+00E9").  Python values are records tagged by the field t.  A call   *)
(* returns [exc |-> "none", v |-> value] or [exc |-> <exception>, v |-> <<>>]. *)
(*                                                                         *)
(* Library code the program calls (str.isalnum, float, str of a float,     *)
(* re, ast.literal_eval, numpy.array, xml.etree.ElementTree) is modelled   *)
(* by what it does on the alphabet Alphabet; Python >= 3.7 (PEP 479) and   *)
(* numpy >= 1.24 are assumed where the version decides the outcome.        *)
(***************************************************************************)
EXTENDS Integers, Sequences, FiniteSets, TLC

(***************************************************************************)
(* Characters                                                              *)
(***************************************************************************)
DigitSeq == <<"0", "1", "2", "3", "4", "5", "6", "7", "8", "9">>

Digit == {DigitSeq[i] : i \in 1..10}

AsciiLetter ==
    {"a", "b", "c", "d", "e", "f", "g", "h", "i", "j", "k", "l", "m",
     "n", "o", "p", "q", "r", "s", "t", "u", "v", "w", "x", "y", "z",
     "A", "B", "C", "D", "E", "F", "G", "H", "I", "J", "K", "L", "M",
     "N", "O", "P", "Q", "R", "S", "T", "U", "V", "W", "X", "Y", "Z"}

\* Non-ASCII characters of the alphabet: e-acute (a letter) and
\* ARABIC-INDIC DIGIT THREE (a decimal digit).
NonAsciiAlnum == {"U+00E9", "U+0663"}

Whitespace == {" ", "\t", "\n", "\r"}

\* str.isalnum() of one character: true of every Unicode letter and digit.
isalnum(c) == c \in AsciiLetter \/ c \in Digit \/ c \in NonAsciiAlnum

\* The regular expression classes \s, \w and \W on str patterns.
IsSpace(c) == c \in Whitespace

IsWord(c) == isalnum(c) \/ c = "_"

(***************************************************************************)
(* Sequence helpers                                                        *)
(***************************************************************************)
\* F(x), with x evaluated once (a LET definition is evaluated at each use).
Let(x, F(_)) == CHOOSE y \in {F(v) : v \in {x}} : TRUE

Min(S) == CHOOSE x \in S : \A y \in S : x <= y

Max(S) == CHOOSE x \in S : \A y \in S : x >= y

\* The first index >= i of s whose character is not in the class P(_),
\* Len(s) + 1 when there is none.
SkipWhile(P(_), s, i) == Min({j \in i..Len(s) : ~P(s[j])} \cup {Len(s) + 1})

\* The first index >= i of s holding character c, 0 when there is none.
Find(s, c, i) ==
    LET hits == {j \in i..Len(s) : s[j] = c}
    IN  IF hits = {} THEN 0 ELSE Min(hits)

\* s[i..] starts with pat.
StartsAt(s, pat, i) ==
    /\ i >= 1
    /\ i + Len(pat) - 1 <= Len(s)
    /\ \A j \in 1..Len(pat) : s[i + j - 1] = pat[j]

startswith(s, pat) == StartsAt(s, pat, 1)

endswith(s, pat) == StartsAt(s, pat, Len(s) - Len(pat) + 1)

\* pat in s
Contains(s, pat) == \E i \in 1..Len(s) : StartsAt(s, pat, i)

Tail2(s, i) == SubSeq(s, i, Len(s))

RECURSIVE ReplaceFrom(_, _, _, _)
ReplaceFrom(s, old, new, i) ==
    IF i > Len(s) THEN <<>>
    ELSE IF StartsAt(s, old, i)
         THEN new \o ReplaceFrom(s, old, new, i + Len(old))
         ELSE <<s[i]>> \o ReplaceFrom(s, old, new, i + 1)

\* str.replace(old, new) for a non-empty old.
replace(s, old, new) == ReplaceFrom(s, old, new, 1)

RECURSIVE Concat(_)
Concat(ss) == IF ss = <<>> THEN <<>> ELSE Head(ss) \o Concat(Tail(ss))

\* str.strip()
strip(s) ==
    LET keep == {j \in 1..Len(s) : ~IsSpace(s[j])}
    IN  IF keep = {} THEN <<>> ELSE SubSeq(s, Min(keep), Max(keep))

RECURSIVE SplitFrom(_, _)
SplitFrom(s, i) ==
    IF i > Len(s) THEN <<>>
    ELSE LET j == Find(s, "\n", i)
         IN  IF j = 0 THEN <<SubSeq(s, i, Len(s))>>
             ELSE <<SubSeq(s, i, j - 1)>> \o SplitFrom(s, j + 1)

\* str.splitlines(): "\n" is the alphabet's only line boundary; a final
\* line break opens no empty last line.
splitlines(s) == SplitFrom(s, 1)

(***************************************************************************)
(* Results of calls                                                        *)
(***************************************************************************)
Ok(v) == [exc |-> "none", v |-> v]

Raise(e) == [exc |-> e, v |-> <<>>]

(***************************************************************************)
(* Numbers.  A number is m * 10^(-k), an int (k = 0) or a float; floats    *)
(* are kept normalised (no trailing zero counted in k).  The decimals of   *)
(* the model are short, so that str and float are exact inverses as they   *)
(* are for the shortest-repr formatting of Python and numpy (no exponent   *)
(* form: 1e-4 <= |x| < 1e16).                                              *)
(***************************************************************************)
Int_(n) == [t |-> "int", m |-> n, k |-> 0]

NaN == [t |-> "nan", m |-> 0, k |-> 0]

Str(s) == [t |-> "str", s |-> s]

RECURSIVE Pow10(_)
Pow10(k) == IF k = 0 THEN 1 ELSE 10 * Pow10(k - 1)

RECURSIVE Float(_, _)
Float(m, k) ==
    IF k > 0 /\ m % 10 = 0 THEN Float(m \div 10, k - 1)
    ELSE [t |-> "float", m |-> m, k |-> k]

IsNum(x) == x.t \in {"int", "float"}

\* math.isnan / numpy.isnan
IsNaN(x) == x.t = "nan"

Abs(n) == IF n < 0 THEN -n ELSE n

RECURSIVE NatStr(_)
NatStr(n) ==
    IF n < 10 THEN <<DigitSeq[n + 1]>>
    ELSE NatStr(n \div 10) \o <<DigitSeq[(n % 10) + 1]>>

RECURSIVE FracStr(_, _)
FracStr(f, k) ==
    IF k = 0 THEN <<>>
    ELSE FracStr(f \div 10, k - 1) \o <<DigitSeq[(f % 10) + 1]>>

\* str(x) of an int, a float, a NaN or a str, as an f-string field writes it.
str(x) ==
    CASE x.t = "str" -> x.s
      [] x.t = "nan" -> <<"n", "a", "n">>
      [] x.t = "int" -> (IF x.m < 0 THEN <<"-">> ELSE <<>>) \o NatStr(Abs(x.m))
      [] x.t = "float" ->
            (IF x.m < 0 THEN <<"-">> ELSE <<>>)
            \o NatStr(Abs(x.m) \div Pow10(x.k))
            \o <<".">>
            \o (IF x.k = 0 THEN <<"0">> ELSE FracStr(Abs(x.m) % Pow10(x.k), x.k))

DigitVal(c) == CHOOSE d \in 0..9 : DigitSeq[d + 1] = c

RECURSIVE ParseNat(_)
ParseNat(ds) ==
    IF ds = <<>> THEN 0
    ELSE 10 * ParseNat(SubSeq(ds, 1, Len(ds) - 1)) + DigitVal(ds[Len(ds)])

AllDigits(ds) == \A i \in 1..Len(ds) : ds[i] \in Digit

\* The value of an unsigned decimal numeral: digits, optionally a point and
\* more digits, at least one digit in all; "bad" when s is none.
Numeral(s) ==
    LET dot == Find(s, ".", 1)
        ip == IF dot = 0 THEN s ELSE SubSeq(s, 1, dot - 1)
        fp == IF dot = 0 THEN <<>> ELSE SubSeq(s, dot + 1, Len(s))
    IN  IF AllDigits(ip) /\ AllDigits(fp) /\ Len(ip) + Len(fp) > 0
        THEN IF dot = 0
             THEN Int_(ParseNat(ip))
             ELSE Float(ParseNat(ip) * Pow10(Len(fp)) + ParseNat(fp), Len(fp))
        ELSE [t |-> "bad", m |-> 0, k |-> 0]

Negate(x) == [x EXCEPT !.m = -x.m]

\* float(s): surrounding whitespace is ignored; an optional sign; a decimal
\* numeral or nan; anything else raises ValueError.
float(s) ==
    LET b == strip(s)
        signed == b # <<>> /\ b[1] \in {"-", "+"}
        u == IF signed THEN Tail(b) ELSE b
        n == Numeral(u)
    IN  IF u = <<"n", "a", "n">> THEN Ok(NaN)
        ELSE IF n.t = "bad" THEN Raise("ValueError")
        ELSE LET f == Float(n.m, n.k)
             IN  Ok(IF signed /\ b[1] = "-" THEN Negate(f) ELSE f)

(***************************************************************************)
(* Containers.  A dict is a sequence of [key, val] entries with distinct   *)
(* keys, in insertion order.                                               *)
(***************************************************************************)
Keys(d) == [i \in 1..Len(d) |-> d[i].key]

HasKey(d, k) == \E i \in 1..Len(d) : d[i].key = k

\* DictSet moving an overwritten key to the end.
DictSet_moves_key(d, k, v) ==
    Append(SelectSeq(d, LAMBDA e : e.key # k), [key |-> k, val |-> v])

\* d[k] = v: a new key is appended, a present key keeps its place and takes
\* the new value.
DictSet(d, k, v) ==
    IF HasKey(d, k)
    THEN [i \in 1..Len(d) |-> IF d[i].key = k THEN [key |-> k, val |-> v] ELSE d[i]]
    ELSE Append(d, [key |-> k, val |-> v])

Array(dtype, items) == [t |-> "array", dtype |-> dtype, items |-> items]

List(items) == [t |-> "list", items |-> items]

Tuple(items) == [t |-> "tuple", items |-> items]

\* len(val) for the subscripting val[0], val[1], val[2]
Length(val) == IF val.t = "str" THEN Len(val.s) ELSE Len(val.items)

\* val[i], 0-based, of a value with at least i + 1 elements
Item(val, i) == IF val.t = "str" THEN Str(<<val.s[i + 1]>>) ELSE val.items[i + 1]

(***************************************************************************)
(* The AnyScript formatter                                                 *)
(***************************************************************************)
\* sanitize writing two underscores for each invalid character.
sanitize_two_underscores(name) ==
    Concat([i \in 1..Len(name) |-> IF isalnum(name[i]) THEN <<name[i]>> ELSE <<"_", "_">>])

\* "".join(c if c.isalnum() else "_" for c in name)
sanitize(name) == [i \in 1..Len(name) |-> IF isalnum(name[i]) THEN name[i] ELSE "_"]

\* signal_last with the flag on the first item instead of the last.
signal_last_flags_first(it) ==
    IF it = <<>> THEN Raise("RuntimeError")
    ELSE Ok([i \in 1..Len(it) |-> [is_last |-> i = 1, item |-> it[i]]])

\* The generator signal_last, run to its end: the (is_last, item) pairs it
\* yields.  On an empty iterable next() raises StopIteration inside the
\* generator body, which leaves the generator as RuntimeError.
signal_last(it) ==
    IF it = <<>> THEN Raise("RuntimeError")
    ELSE Ok([i \in 1..Len(it) |-> [is_last |-> i = Len(it), item |-> it[i]]])

\* Whether val[0], val[1] and val[2] all exist (IndexError otherwise).
HasThree(points) == \A i \in 1..Len(points) : Length(points[i].val) >= 3

PointcloudLine(is_last, name, val) ==
    LET comma == IF is_last THEN <<>> ELSE <<",">>
    IN  <<"{">> \o str(Item(val, 0)) \o <<",", " ">> \o str(Item(val, 1))
        \o <<",", " ">> \o str(Item(val, 2)) \o <<"}">> \o comma
        \o <<" ", "/", "/", " ">> \o sanitize(name) \o <<" ", "\n">>

format_anyscript_pointcloud(points) ==
    Let(signal_last(points), LAMBDA sl :
        IF sl.exc # "none" THEN sl
        ELSE IF ~HasThree(points) THEN Raise("IndexError")
        ELSE Ok(Concat([i \in 1..Len(sl.v) |->
                    PointcloudLine(sl.v[i].is_last, sl.v[i].item.key, sl.v[i].item.val)])))

DeclarationLine(name, val) ==
    <<"A", "n", "y", "F", "l", "o", "a", "t", " ">> \o sanitize(name)
    \o <<" ", "=", " ", "{">> \o str(Item(val, 0)) \o <<",">> \o str(Item(val, 1))
    \o <<",", " ">> \o str(Item(val, 2)) \o <<"}", ";", "\n">>

format_anyscript(points) ==
    IF ~HasThree(points) THEN Raise("IndexError")
    ELSE Ok(Concat([i \in 1..Len(points) |->
                DeclarationLine(points[i].key, points[i].val)]))

(***************************************************************************)
(* The pick-points XML writer                                              *)
(***************************************************************************)
PPLine(name, val) ==
    <<"<", "p", "o", "i", "n", "t", " ", "x", "=", "\"">> \o str(Item(val, 0))
    \o <<"\"", " ", "y", "=", "\"">> \o str(Item(val, 1))
    \o <<"\"", " ", "z", "=", "\"">> \o str(Item(val, 2))
    \o <<"\"", " ", "a", "c", "t", "i", "v", "e", "=", "\"", "1", "\"", " ",
         "n", "a", "m", "e", "=", "\"">>
    \o name \o <<"\"", " ", "/", ">", "\n">>

format_ppfile(points) ==
    IF ~HasThree(points) THEN Raise("IndexError")
    ELSE Ok(Concat([i \in 1..Len(points) |-> PPLine(points[i].key, points[i].val)]))

(***************************************************************************)
(* xml.etree.ElementTree.fromstring, on documents made of an optional      *)
(* <!DOCTYPE name>, tags with attributes written name="value", and         *)
(* character data (no entity references, comments, processing              *)
(* instructions or CDATA sections: "&" is not in the alphabet).            *)
(***************************************************************************)
BadToken == [k |-> "bad", body |-> <<>>]

Quotes(s, i, j) == Cardinality({n \in i..j : s[n] = "\""})

\* The index of the ">" closing the tag opened at s[i], 0 when unclosed.
TagEnd(s, i) ==
    LET ends == {j \in (i + 1)..Len(s) : s[j] = ">" /\ Quotes(s, i, j) % 2 = 0}
    IN  IF ends = {} THEN 0 ELSE Min(ends)

RECURSIVE XmlTokens(_, _)
XmlTokens(s, i) ==
    IF i > Len(s) THEN <<>>
    ELSE IF s[i] = "<"
    THEN LET j == TagEnd(s, i)
         IN  IF j = 0 THEN <<BadToken>>
             ELSE <<[k |-> "tag", body |-> SubSeq(s, i + 1, j - 1)]>> \o XmlTokens(s, j + 1)
    ELSE LET n == Find(s, "<", i)
             j == IF n = 0 THEN Len(s) + 1 ELSE n
         IN  <<[k |-> "text", body |-> SubSeq(s, i, j - 1)]>> \o XmlTokens(s, j)

IsNameStart(c) == c \in AsciiLetter \/ c \in {"_", ":", "U+00E9"}

IsNameChar(c) == IsNameStart(c) \/ c \in Digit \/ c \in {"-", ".", "U+0663"}

IsName(s) == s # <<>> /\ IsNameStart(s[1]) /\ \A i \in 1..Len(s) : IsNameChar(s[i])

AllSpace(s) == \A i \in 1..Len(s) : IsSpace(s[i])

HasAttr(attrib, n) == \E i \in 1..Len(attrib) : attrib[i].name = n

\* elem.attrib[n] of a present attribute
Attr(attrib, n) == attrib[CHOOSE i \in 1..Len(attrib) : attrib[i].name = n].value

BadAttrs == [ok |-> FALSE, attrib |-> <<>>]

\* The attributes written in c from index i on: each after white space, as
\* name="value"; a repeated name or a "<" in a value is not well-formed.
RECURSIVE ParseAttrs(_, _, _)
ParseAttrs(c, i, acc) ==
    LET j == SkipWhile(IsSpace, c, i)
    IN  IF j > Len(c) THEN [ok |-> TRUE, attrib |-> acc]
        ELSE IF j = i THEN BadAttrs
        ELSE LET eq == Find(c, "=", j)
                 q2 == IF eq = 0 THEN 0 ELSE Find(c, "\"", eq + 2)
             IN  IF eq = 0 \/ eq + 1 > Len(c) \/ c[eq + 1] # "\"" \/ q2 = 0
                 THEN BadAttrs
                 ELSE LET n == SubSeq(c, j, eq - 1)
                          v == SubSeq(c, eq + 2, q2 - 1)
                      IN  IF ~IsName(n) \/ HasAttr(acc, n) \/ Find(v, "<", 1) # 0
                          THEN BadAttrs
                          ELSE Let(<<q2 + 1, Append(acc, [name |-> n, value |-> v])>>,
                                   LAMBDA p : ParseAttrs(c, p[1], p[2]))

\* One tag body (the text between "<" and ">") as a parser event.
TagEvent(b) ==
    IF StartsAt(b, <<"!", "D", "O", "C", "T", "Y", "P", "E">>, 1)
    THEN IF Len(b) >= 10 /\ IsSpace(b[9]) /\ IsName(strip(Tail2(b, 9)))
         THEN [k |-> "doctype"] ELSE [k |-> "bad"]
    ELSE IF b # <<>> /\ b[1] = "/"
    THEN IF IsName(strip(Tail(b)) ) /\ (Len(b) >= 2 /\ ~IsSpace(b[2]))
         THEN [k |-> "close", tag |-> strip(Tail(b))] ELSE [k |-> "bad"]
    ELSE LET self == b # <<>> /\ b[Len(b)] = "/"
             c == IF self THEN SubSeq(b, 1, Len(b) - 1) ELSE b
             e == SkipWhile(LAMBDA ch : ~IsSpace(ch), c, 1)
             n == SubSeq(c, 1, e - 1)
             a == ParseAttrs(c, e, <<>>)
         IN  IF IsName(n) /\ Find(c, "<", 1) = 0 /\ a.ok
             THEN [k |-> IF self THEN "empty" ELSE "open", tag |-> n, attrib |-> a.attrib]
             ELSE [k |-> "bad"]

\* The walk over the tokens: st.phase is "prolog" before the root element,
\* "in" inside it and "epilog" after it; st.open the tags still open;
\* st.elems the elements met, in document order.
XmlStep(st, tok) ==
    IF tok.k = "bad" THEN [st EXCEPT !.ok = FALSE]
    ELSE IF tok.k = "text"
    THEN IF st.phase = "in" \/ AllSpace(tok.body) THEN st ELSE [st EXCEPT !.ok = FALSE]
    ELSE Let(TagEvent(tok.body), LAMBDA ev :
            CASE ev.k = "bad" -> [st EXCEPT !.ok = FALSE]
              [] ev.k = "doctype" ->
                   IF st.phase = "prolog" /\ ~st.doctype
                   THEN [st EXCEPT !.doctype = TRUE] ELSE [st EXCEPT !.ok = FALSE]
              [] ev.k = "open" ->
                   IF st.phase = "epilog" THEN [st EXCEPT !.ok = FALSE]
                   ELSE [st EXCEPT !.phase = "in",
                                   !.open = Append(@, ev.tag),
                                   !.elems = Append(@, [tag |-> ev.tag, attrib |-> ev.attrib])]
              [] ev.k = "empty" ->
                   IF st.phase = "epilog" THEN [st EXCEPT !.ok = FALSE]
                   ELSE [st EXCEPT !.phase = IF st.open = <<>> THEN "epilog" ELSE "in",
                                   !.elems = Append(@, [tag |-> ev.tag, attrib |-> ev.attrib])]
              [] ev.k = "close" ->
                   IF st.open = <<>> \/ st.open[Len(st.open)] # ev.tag
                   THEN [st EXCEPT !.ok = FALSE]
                   ELSE [st EXCEPT !.open = SubSeq(@, 1, Len(@) - 1),
                                   !.phase = IF Len(st.open) = 1 THEN "epilog" ELSE "in"])

RECURSIVE XmlWalk(_, _)
XmlWalk(st, toks) ==
    IF toks = <<>> \/ ~st.ok THEN st
    ELSE Let(XmlStep(st, Head(toks)), LAMBDA st1 : XmlWalk(st1, Tail(toks)))

\* ElementTree.fromstring(data): the elements of the document in document
\* order (the root first), or ParseError when data is not one well-formed
\* document.
fromstring(data) ==
    Let(XmlWalk([ok |-> TRUE, phase |-> "prolog", doctype |-> FALSE,
                 open |-> <<>>, elems |-> <<>>], XmlTokens(data, 1)),
        LAMBDA st : IF st.ok /\ st.phase = "epilog" THEN Ok(st.elems) ELSE Raise("ParseError"))

\* etree.iter(tag)
iter(elems, tag) == SelectSeq(elems, LAMBDA e : e.tag = tag)

(***************************************************************************)
(* The pick-points XML reader                                              *)
(***************************************************************************)
\* One pass of the loop body of parse_pp_file over elem, from the state
\* acc = [exc, v]: a missing attribute is a KeyError, which no handler
\* catches; a ValueError of float() skips the element.
PointStep(acc, elem) ==
    LET a == elem.attrib
        Coord(n) == float(Attr(a, n))
    IN  IF acc.exc # "none" THEN acc
        ELSE IF ~HasAttr(a, <<"x">>) THEN Raise("KeyError")
        ELSE IF Coord(<<"x">>).exc # "none" THEN acc
        ELSE IF ~HasAttr(a, <<"y">>) THEN Raise("KeyError")
        ELSE IF Coord(<<"y">>).exc # "none" THEN acc
        ELSE IF ~HasAttr(a, <<"z">>) THEN Raise("KeyError")
        ELSE IF Coord(<<"z">>).exc # "none" THEN acc
        ELSE IF ~HasAttr(a, <<"n", "a", "m", "e">>) THEN Raise("KeyError")
        ELSE Ok(DictSet(acc.v, Attr(a, <<"n", "a", "m", "e">>),
                        Array("float64", <<Coord(<<"x">>).v, Coord(<<"y">>).v,
                                           Coord(<<"z">>).v>>)))

RECURSIVE PointLoop(_, _)
PointLoop(acc, elems) ==
    IF elems = <<>> THEN acc
    ELSE Let(PointStep(acc, Head(elems)), LAMBDA acc1 : PointLoop(acc1, Tail(elems)))

parse_pp_file(data) ==
    Let(fromstring(data), LAMBDA etree :
        IF etree.exc # "none" THEN Raise("ValueError")
        ELSE PointLoop(Ok(<<>>), iter(etree.v, <<"p", "o", "i", "n", "t">>)))

(***************************************************************************)
(* ast.literal_eval, on text over the characters [ ] , . - + ' " digits,   *)
(* letters and white space: numbers, quoted strings (adjacent ones         *)
(* concatenate), None, the Ellipsis, names, lists, and a tuple for a       *)
(* comma at top level.  SyntaxError and ValueError are one outcome here,   *)
(* GrammarError: every handler of the program catches the two together.    *)
(***************************************************************************)
GrammarError == "SyntaxError or ValueError"

NoParse == [ok |-> FALSE, v |-> <<>>, i |-> 0]

Parsed(v, i) == [ok |-> TRUE, v |-> v, i |-> i]

IsQuote(c) == c \in {"'", "\""}

\* The string literal opening at s[i]: triple-quoted when the quote comes
\* three times, ending at the next (triple) quote.
StringAt(s, i) ==
    LET q == s[i]
        qqq == <<q, q, q>>
    IN  IF StartsAt(s, qqq, i)
        THEN LET ends == {j \in (i + 3)..Len(s) : StartsAt(s, qqq, j)}
             IN  IF ends = {} THEN NoParse
                 ELSE Parsed(SubSeq(s, i + 3, Min(ends) - 1), Min(ends) + 3)
        ELSE LET j == Find(s, q, i + 1)
             IN  IF j = 0 THEN NoParse ELSE Parsed(SubSeq(s, i + 1, j - 1), j + 1)

RECURSIVE StringsAt(_, _)
StringsAt(s, i) ==
    Let(StringAt(s, i), LAMBDA one :
        IF ~one.ok THEN NoParse
        ELSE Let(SkipWhile(IsSpace, s, one.i), LAMBDA j :
                IF j <= Len(s) /\ IsQuote(s[j])
                THEN Let(StringsAt(s, j), LAMBDA more :
                        IF more.ok THEN Parsed(one.v \o more.v, more.i) ELSE NoParse)
                ELSE one))

IsNumChar(c) == c \in Digit \/ c = "."

\* The number token at s[i] (a digit or a point): an int, a float or the
\* Ellipsis; a letter right after it, a second point or a leading zero of an
\* int is a SyntaxError.
NumberAt(s, i) ==
    LET e == SkipWhile(IsNumChar, s, i)
        run == SubSeq(s, i, e - 1)
        n == Numeral(run)
    IN  IF e <= Len(s) /\ IsWord(s[e]) THEN NoParse
        ELSE IF run = <<".", ".", ".">> THEN Parsed([t |-> "Ellipsis"], e)
        ELSE IF n.t = "bad" THEN NoParse
        ELSE IF n.t = "int" /\ Len(run) > 1 /\ run[1] = "0" /\ n.m # 0 THEN NoParse
        ELSE Parsed(n, e)

RECURSIVE AtomAt(_, _)
RECURSIVE ItemsAt(_, _, _, _)
RECURSIVE AfterItem(_, _, _, _)

\* One operand at s[i], s[i] not white space.
AtomAt(s, i) ==
    IF i > Len(s) THEN NoParse
    ELSE IF s[i] = "["
    THEN Let(ItemsAt(s, i + 1, "]", <<>>), LAMBDA r :
            IF r.ok THEN Parsed(List(r.v), r.i + 1) ELSE NoParse)
    ELSE IF IsQuote(s[i])
    THEN Let(StringsAt(s, i), LAMBDA r :
            IF r.ok THEN Parsed(Str(r.v), r.i) ELSE NoParse)
    ELSE IF s[i] \in {"-", "+"}
    THEN Let(SkipWhile(IsSpace, s, i + 1), LAMBDA j :
            Let(IF j <= Len(s) /\ IsNumChar(s[j]) THEN NumberAt(s, j) ELSE NoParse,
                LAMBDA r :
                    IF r.ok /\ IsNum(r.v)
                    THEN Parsed(IF s[i] = "-" THEN Negate(r.v) ELSE r.v, r.i)
                    ELSE NoParse))
    ELSE IF IsNumChar(s[i]) THEN NumberAt(s, i)
    ELSE IF IsWord(s[i])
    THEN LET e == SkipWhile(IsWord, s, i)
         IN  IF SubSeq(s, i, e - 1) = <<"N", "o", "n", "e">>
             THEN Parsed([t |-> "None"], e) ELSE NoParse
    ELSE NoParse

\* Where an item or the closer may come: after the opening bracket or after
\* a comma.  closer is "]" in a list and "" (the end of the text) at top
\* level; the result's i is the index of the closer.
ItemsAt(s, i, closer, acc) ==
    Let(SkipWhile(IsSpace, s, i), LAMBDA j :
        IF j > Len(s) THEN (IF closer = "" THEN Parsed(acc, j) ELSE NoParse)
        ELSE IF s[j] = closer THEN Parsed(acc, j)
        ELSE Let(AtomAt(s, j), LAMBDA a :
                IF a.ok THEN AfterItem(s, a.i, closer, Append(acc, a.v)) ELSE NoParse))

\* After an item: a comma or the closer; anything else (an operator, a
\* subscript, a second operand) fails.
AfterItem(s, i, closer, acc) ==
    Let(SkipWhile(IsSpace, s, i), LAMBDA j :
        IF j > Len(s) THEN (IF closer = "" THEN Parsed(acc, j) ELSE NoParse)
        ELSE IF s[j] = closer THEN Parsed(acc, j)
        ELSE IF s[j] = "," THEN ItemsAt(s, j + 1, closer, acc)
        ELSE NoParse)

\* literal_eval(s): one operand, or the tuple of the operands that commas
\* separate at top level (one operand and a closing comma is a 1-tuple).
literal_eval(s) ==
    Let(ItemsAt(s, 1, "", <<>>), LAMBDA r :
        IF ~r.ok \/ r.v = <<>> THEN Raise(GrammarError)
        ELSE IF Len(r.v) > 1 \/ endswith(strip(s), <<",">>) THEN Ok(Tuple(r.v))
        ELSE Ok(r.v[1]))

(***************************************************************************)
(* numpy.array of a list                                                   *)
(***************************************************************************)
Ragged == <<-1>>

RECURSIVE Shape(_)
Shape(x) ==
    IF x.t # "list" THEN <<>>
    ELSE IF x.items = <<>> THEN <<0>>
    ELSE LET shapes == {Shape(x.items[i]) : i \in 1..Len(x.items)}
         IN  IF Cardinality(shapes) = 1 /\ Ragged \notin shapes
             THEN <<Len(x.items)>> \o (CHOOSE sh \in shapes : TRUE)
             ELSE Ragged

RECURSIVE LeafKinds(_)
LeafKinds(x) ==
    IF x.t # "list" THEN {x.t}
    ELSE UNION {LeafKinds(x.items[i]) : i \in 1..Len(x.items)}

\* The element type numpy gives the leaves: text when any leaf is a str,
\* else object when one is no number, else float64 when one is a float,
\* else int64 (float64 for no leaf at all).
Dtype(kinds) ==
    IF "str" \in kinds THEN "str"
    ELSE IF kinds \ {"int", "float", "nan"} # {} THEN "object"
    ELSE IF kinds = {"int"} THEN "int64"
    ELSE "float64"

Cast(x, dtype) ==
    CASE dtype = "str" -> Str(str(x))
      [] dtype = "float64" /\ x.t = "int" -> Float(x.m, 0)
      [] OTHER -> x

RECURSIVE AsArray(_, _)
AsArray(x, dtype) ==
    IF x.t # "list" THEN Cast(x, dtype)
    ELSE Array(dtype, [i \in 1..Len(x.items) |-> AsArray(x.items[i], dtype)])

\* np.array(out): a list whose sublists differ in shape raises ValueError.
np_array(out) ==
    IF Shape(out) = Ragged THEN Raise("ValueError")
    ELSE Ok(AsArray(out, Dtype(LeafKinds(out))))

(***************************************************************************)
(* The literal parser                                                      *)
(***************************************************************************)
IsNanStr(x) == x.t = "str" /\ x.s = <<"n", "a", "n">>

\* _recursive_replace(iterable, "nan", float("nan")), as the value the
\* iterable holds afterwards: an item that is a list is walked, another
\* item equal to "nan" is assigned to, which a tuple refuses (TypeError).
RECURSIVE _recursive_replace(_)
_recursive_replace(iterable) ==
    IF iterable.t \notin {"list", "tuple"} THEN Ok(iterable)
    ELSE Let([i \in 1..Len(iterable.items) |->
                 IF iterable.items[i].t = "list"
                 THEN _recursive_replace(iterable.items[i])
                 ELSE IF IsNanStr(iterable.items[i])
                 THEN (IF iterable.t = "tuple" THEN Raise("TypeError") ELSE Ok(NaN))
                 ELSE Ok(iterable.items[i])],
             LAMBDA sub :
                 IF \E i \in 1..Len(sub) : sub[i].exc # "none"
                 THEN Raise("TypeError")
                 ELSE Ok([iterable EXCEPT !.items = [i \in 1..Len(sub) |-> sub[i].v]]))

NotWrapped(c) == ~(c \in {"[", "]", "\"", ","} \/ IsSpace(c))

\* TRIPEL_QUOTE_WRAP.subn(r"'''\1'''", val)[0]: every maximal run of
\* characters other than [ ] " , and white space is put in triple quotes.
RECURSIVE TripelQuoteWrap(_, _)
TripelQuoteWrap(val, i) ==
    IF i > Len(val) THEN <<>>
    ELSE IF NotWrapped(val[i])
    THEN LET e == SkipWhile(NotWrapped, val, i)
         IN  <<"'", "'", "'">> \o SubSeq(val, i, e - 1) \o <<"'", "'", "'">>
             \o TripelQuoteWrap(val, e)
    ELSE <<val[i]>> \o TripelQuoteWrap(val, i + 1)

BraceToBracket(c) == IF c = "{" THEN "[" ELSE IF c = "}" THEN "]" ELSE c

\* The last attempt of _parse_anyscript (lines 219-224).
LastAttempt(val) ==
    Let(TripelQuoteWrap(val, 1), LAMBDA w :
        LET n == IF w = <<>> THEN <<"N", "o", "n", "e">> ELSE w
            q == IF startswith(n, <<"\"">>) /\ endswith(n, <<"\"">>)
                 THEN <<"'", "'", "'">> \o SubSeq(n, 2, Len(n) - 1) \o <<"'", "'", "'">>
                 ELSE n
        IN  literal_eval(q))

\* The attempt for text holding "nan," (lines 211-217): its result, or
\* GrammarError when the last attempt is to follow.
NanAttempt(val) ==
    IF Contains(val, <<"n", "a", "n", ",">>)
    THEN Let(literal_eval(replace(val, <<"n", "a", "n", ",">>,
                                  <<" ", "\"", "n", "a", "n", "\"", ",">>)),
             LAMBDA out : IF out.exc # "none" THEN out ELSE _recursive_replace(out.v))
    ELSE Raise(GrammarError)

_parse_anyscript(val0) ==
    LET val1 == IF startswith(val0, <<"{">>) /\ endswith(val0, <<"}">>)
                THEN [i \in 1..Len(val0) |-> BraceToBracket(val0[i])]
                ELSE val0
        val == IF val1 = <<"[", ".", ".", ".", "]">>
               THEN <<"\"", ".", ".", ".", "\"">> ELSE val1
        Attempts(first) ==
            IF first.exc = "none" THEN first
            ELSE Let(NanAttempt(val), LAMBDA second :
                    IF second.exc # GrammarError THEN second ELSE LastAttempt(val))
    IN  Let(Let(literal_eval(val), Attempts), LAMBDA out :
            IF out.exc = "none" /\ out.v.t = "list" THEN np_array(out.v) ELSE out)

(***************************************************************************)
(* The AnyScript line matcher                                              *)
(***************************************************************************)
NoMatch == [m |-> FALSE, val |-> <<>>, name |-> <<>>]

\* ANYSCRIPT_POINT_LINE.match(line), for a line without line break: white
\* space (at least one character), then group 1 from the "{" that follows
\* to the last "}" of the line with at least one character between them,
\* then white space, a comma, white space, one slash (each optional), then
\* every non-word character, then group 2, the rest of the line.
ANYSCRIPT_POINT_LINE(line) ==
    LET b == SkipWhile(IsSpace, line, 1)
        closes == {j \in 1..Len(line) : line[j] = "}"}
        e == IF closes = {} THEN 0 ELSE Max(closes)
        p1 == SkipWhile(IsSpace, line, e + 1)
        p2 == IF p1 <= Len(line) /\ line[p1] = "," THEN p1 + 1 ELSE p1
        p3 == SkipWhile(IsSpace, line, p2)
        p4 == IF p3 <= Len(line) /\ line[p3] = "/" THEN p3 + 1 ELSE p3
        p5 == SkipWhile(LAMBDA c : ~IsWord(c), line, p4)
    IN  IF b >= 2 /\ b <= Len(line) /\ line[b] = "{" /\ e >= b + 2
        THEN [m |-> TRUE, val |-> SubSeq(line, b, e), name |-> Tail2(line, p5)]
        ELSE NoMatch

\* One pass of the loop body of parse_anyanyscript over line, from the
\* state acc = [exc, v].
LineStep(acc, line) ==
    Let(ANYSCRIPT_POINT_LINE(line), LAMBDA m :
        IF acc.exc # "none" \/ ~m.m THEN acc
        ELSE Let(_parse_anyscript(m.val), LAMBDA r :
                IF r.exc \in {GrammarError, "SyntaxError", "ValueError"} THEN acc
                ELSE IF r.exc # "none" THEN Raise(r.exc)
                ELSE Ok(DictSet(acc.v, m.name, r.v))))

RECURSIVE LineLoop(_, _)
LineLoop(acc, lines) ==
    IF lines = <<>> THEN acc
    ELSE Let(LineStep(acc, Head(lines)), LAMBDA acc1 : LineLoop(acc1, Tail(lines)))

parse_anyanyscript(data) ==
    Let(splitlines(data), LAMBDA lines : LineLoop(Ok(<<>>), lines))

(***************************************************************************)
(* The command convert, from the text it is given to the text it prints    *)
(***************************************************************************)
Doctype ==
    <<"<", "!", "D", "O", "C", "T", "Y", "P", "E", " ", "P", "i", "c", "k",
      "e", "d", "P", "o", "i", "n", "t", "s", ">">>

PointCloudHeading ==
    <<"\n", "\n", " ", "P", "o", "i", "n", "t", " ", "c", "l", "o", "u",
      "d", ":", "\n", "=", "=", "=", "=", "=", "=", "=", "=", "=", "=",
      "=", "=", "=", "=", "=", "=", "=", "=", "=", "=", "=", "=", "=", "=",
      "=", "=", "=", "=", "=", "=", "=", "=", "\n">>

ValuesHeading ==
    <<"\n", "\n", " ", "A", "n", "y", "s", "c", "r", "i", "p", "t", " ",
      "v", "a", "l", "u", "e", "s", ":", "\n", "=", "=", "=", "=", "=",
      "=", "=", "=", "=", "=", "=", "=", "=", "=", "=", "=", "=", "=", "=",
      "=", "=", "=", "=", "=", "=", "=", "=", "=", "=", "=", "=", "=", "\n">>

\* The body of convert from line 90 on, data being the text read: the
\* standard output at the end, or the exception that ends the command.
convert(data) ==
    LET blank == <<"\n", "\n", "\n">>
        Render(points) ==
            Let(format_anyscript_pointcloud(points), LAMBDA cloud :
                IF cloud.exc # "none" THEN cloud
                ELSE Let(format_anyscript(points), LAMBDA values :
                        IF values.exc # "none" THEN values
                        ELSE Ok(blank \o PointCloudHeading \o cloud.v \o <<"\n">>
                                \o ValuesHeading \o values.v \o <<"\n">>)))
        Write(points) ==
            Let(format_ppfile(points), LAMBDA pp :
                IF pp.exc # "none" THEN pp ELSE Ok(blank \o pp.v \o <<"\n">>))
    IN  IF startswith(data, Doctype)
        THEN Let(parse_pp_file(data), LAMBDA points :
                IF points.exc # "none" THEN points ELSE Render(points.v))
        ELSE IF Contains(data, <<"=">>) /\ startswith(strip(data), <<"{">>)
        THEN Let(parse_anyanyscript(data), LAMBDA parsed :
                IF parsed.exc # "none" THEN parsed ELSE Write(parsed.v))
        ELSE Ok(blank)

(***************************************************************************)
(* Inputs                                                                  *)
(***************************************************************************)
MaxCalls == 2

MaxPoints == 3

MaxNameLen == 2

MaxElems == 3

MaxLines == 2

MaxWidth == 2

SeqsUpTo(S, n) == UNION {[1..k -> S] : k \in 0..n}

\* Names of points: identifier-safe ones, one with a blank and a hyphen,
\* one with a non-ASCII letter.
PointNames == {<<"P", "1">>, <<"Q">>, <<"a", " ", "-">>, <<"U+00E9">>}

\* Coordinates: (1.0, -2.5, 3.05), (0.0, 12.0, 0.5) and (1.5, nan, 2.0).
Vals ==
    {Array("float64", <<Float(1, 0), Float(-25, 1), Float(305, 2)>>),
     Array("float64", <<Float(0, 0), Float(12, 0), Float(5, 1)>>),
     Array("float64", <<Float(15, 1), NaN, Float(2, 0)>>)}

Distinct(s) == \A i, j \in 1..Len(s) : i # j => s[i] # s[j]

PointSets ==
    {[i \in 1..Len(ns) |-> [key |-> ns[i], val |-> vs[i]]] :
        <<ns, vs>> \in {p \in SeqsUpTo(PointNames, MaxPoints) \X SeqsUpTo(Vals, MaxPoints) :
                            Len(p[1]) = Len(p[2]) /\ Distinct(p[1])}}

\* Elements a pick-points document may hold: points (one name twice, with
\* other coordinates), a point whose x is no number, points lacking x or
\* name, and an element that is no point.
ElemTexts ==
    {
        <<"<", "p", "o", "i", "n", "t", " ", "x", "=", "\"", "1", ".", "0",
          "\"", " ", "y", "=", "\"", "2", ".", "0", "\"", " ", "z", "=",
          "\"", "3", ".", "0", "\"", " ", "n", "a", "m", "e", "=", "\"",
          "P", "\"", "/", ">">>,
        <<"<", "p", "o", "i", "n", "t", " ", "x", "=", "\"", "4", "\"",
          " ", "y", "=", "\"", "5", "\"", " ", "z", "=", "\"", "6", "\"",
          " ", "n", "a", "m", "e", "=", "\"", "P", "\"", "/", ">">>,
        <<"<", "p", "o", "i", "n", "t", " ", "x", "=", "\"", "1", ".", "5",
          "\"", " ", "y", "=", "\"", "-", "2", ".", "5", "\"", " ", "z",
          "=", "\"", "n", "a", "n", "\"", " ", "a", "c", "t", "i", "v",
          "e", "=", "\"", "1", "\"", " ", "n", "a", "m", "e", "=", "\"",
          "Q", "\"", "/", ">">>,
        <<"<", "p", "o", "i", "n", "t", " ", "x", "=", "\"", "a", "\"",
          " ", "y", "=", "\"", "1", "\"", " ", "z", "=", "\"", "2", "\"",
          " ", "n", "a", "m", "e", "=", "\"", "Q", "\"", "/", ">">>,
        <<"<", "p", "o", "i", "n", "t", " ", "y", "=", "\"", "1", "\"",
          " ", "z", "=", "\"", "2", "\"", " ", "n", "a", "m", "e", "=",
          "\"", "R", "\"", "/", ">">>,
        <<"<", "p", "o", "i", "n", "t", " ", "x", "=", "\"", "1", "\"",
          " ", "y", "=", "\"", "1", "\"", " ", "z", "=", "\"", "2", "\"",
          "/", ">">>,
        <<"<", "o", "t", "h", "e", "r", " ", "x", "=", "\"", "9", "\"",
          "/", ">">>
    }

\* Further inputs of the reader: text that is not one well-formed
\* document, and documents whose points nest.
OtherXmlTexts ==
    {
        <<>>,
        <<"<", "r", ">">>,
        <<"<", "r", ">", "<", "/", "s", ">">>,
        <<"<", "r", "/", ">", "j", "u", "n", "k">>,
        <<"j", "u", "n", "k">>,
        <<"<", "r", " ", "a", "=", "\"", "1", "\"", " ", "a", "=", "\"",
          "2", "\"", "/", ">">>,
        <<"<", "p", "o", "i", "n", "t", " ", "x", "=", "\"", "1", "\"",
          " ", "y", "=", "\"", "2", "\"", " ", "z", "=", "\"", "3", "\"",
          " ", "n", "a", "m", "e", "=", "\"", "A", "\"", ">", "<", "p",
          "o", "i", "n", "t", " ", "x", "=", "\"", "4", "\"", " ", "y",
          "=", "\"", "5", "\"", " ", "z", "=", "\"", "6", "\"", " ", "n",
          "a", "m", "e", "=", "\"", "B", "\"", "/", ">", "<", "/", "p",
          "o", "i", "n", "t", ">", "\n">>,
        <<"<", "r", ">", "<", "p", "o", "i", "n", "t", " ", "x", "=", "\"",
          "1", "\"", " ", "y", "=", "\"", "2", "\"", " ", "z", "=", "\"",
          "3", "\"", " ", "n", "a", "m", "e", "=", "\"", "A", "\"", ">",
          "t", "e", "x", "t", "<", "p", "o", "i", "n", "t", " ", "x", "=",
          "\"", "4", "\"", " ", "y", "=", "\"", "5", "\"", " ", "z", "=",
          "\"", "6", "\"", " ", "n", "a", "m", "e", "=", "\"", "A", "\"",
          "/", ">", "<", "/", "p", "o", "i", "n", "t", ">", "<", "/", "r",
          ">">>
    }

\* Lines of AnyScript text: point lines (with and without the leading white
\* space, one name twice), lines with nan, a line whose value is two brace
\* groups around a nan, a line with no braces, the ellipsis, a ragged array
\* and a value no attempt parses.
LineTexts ==
    {
        <<" ", "{", "1", ".", "0", ",", " ", "2", ".", "0", ",", " ", "3",
          ".", "0", "}", ",", " ", "/", "/", " ", "P", "1">>,
        <<"{", "1", ".", "0", ",", " ", "2", ".", "0", ",", " ", "3", ".",
          "0", "}", ",", " ", "/", "/", " ", "P", "1", " ">>,
        <<"\t", "{", "4", ",", " ", "5", ",", " ", "6", "}", " ", "/", "/",
          " ", "P", "1">>,
        <<" ", "{", "7", ",", " ", "8", ",", " ", "9", "}", ",", " ", "/",
          "/", " ", "a", "=", "b">>,
        <<" ", "{", "1", ".", "5", ",", " ", "n", "a", "n", ",", " ", "2",
          ".", "0", "}", ",", " ", "/", "/", " ", "Q">>,
        <<" ", "{", "1", ".", "5", ",", " ", "2", ".", "0", ",", " ", "n",
          "a", "n", "}", " ", "/", "/", " ", "Q">>,
        <<" ", "{", "1", "}", ",", " ", "n", "a", "n", ",", " ", "{", "2",
          "}">>,
        <<" ", "j", "u", "n", "k">>,
        <<" ", "{", ".", ".", ".", "}", " ", "/", "/", " ", "E">>,
        <<" ", "{", "{", "1", ",", " ", "2", "}", ",", " ", "{", "3", "}",
          "}", " ", "/", "/", " ", "R">>,
        <<" ", "{", "1", "}", "{", "2", "}", " ", "/", "/", " ", "S">>
    }

Lines(ss) == Concat([i \in 1..Len(ss) |-> ss[i] \o <<"\n">>])

\* A pick-points document: the document type, a root element, elements.
Document(elems) ==
    Doctype \o <<"\n", "<", "r", ">", "\n">> \o Lines(elems) \o <<"<", "/", "r", ">", "\n">>

XmlTexts == {Document(es) : es \in SeqsUpTo(ElemTexts, MaxElems)} \cup OtherXmlTexts

AnyScriptTexts == {Lines(ls) : ls \in SeqsUpTo(LineTexts, MaxLines)}

\* Arrays of decimal numbers and nan, of depth 1 and 2, as values and as
\* the brace-delimited text AnyBody writes for them.
Leaves == {Float(15, 1), NaN}

Rows(w) == {List(r) : r \in [1..w -> Leaves]}

ArrayValues ==
    UNION {Rows(w) : w \in 1..MaxWidth}
    \cup UNION {{List(m) : m \in [1..n -> Rows(w)]} : n \in 1..MaxWidth, w \in 1..MaxWidth}

RECURSIVE Joined(_)
Joined(ss) ==
    IF Len(ss) = 1 THEN ss[1] ELSE ss[1] \o <<",", " ">> \o Joined(Tail(ss))

RECURSIVE BraceText(_)
BraceText(x) ==
    IF x.t # "list" THEN str(x)
    ELSE <<"{">> \o Joined([i \in 1..Len(x.items) |-> BraceText(x.items[i])]) \o <<"}">>

NameChars == {"P", "q", "7", "_", " ", "-", "U+00E9", "U+0663"}

Names == SeqsUpTo(NameChars, MaxNameLen)

(***************************************************************************)
(* The state: the calls made so far on a given input, the argument and     *)
(* the outcome of the last one.                                            *)
(***************************************************************************)
VARIABLES
    given,   \* what the input is: "points", "xml", "anyscript", "literal", "name"
    input,   \* the input: a PointSet, a text, an array value or a name
    calls,   \* the functions called so far, each on the result of the one before
    arg,     \* the argument of the last call
    kind,    \* what cur is: "points", "text", "val", "value", "name", "stdout", "raised"
    cur,     \* the value the last call returned (the input before any call)
    exc      \* the exception the last call raised, "none" when it returned

vars == <<given, input, calls, arg, kind, cur, exc>>

Start(g, in, k, c) ==
    /\ given = g
    /\ input = in
    /\ kind = k
    /\ cur = c
    /\ calls = <<>>
    /\ arg = <<>>
    /\ exc = "none"

Init ==
    \/ \E p \in PointSets : Start("points", p, "points", p)
    \/ \E x \in XmlTexts : Start("xml", x, "text", x)
    \/ \E a \in AnyScriptTexts : Start("anyscript", a, "text", a)
    \/ \E v \in ArrayValues : Start("literal", v, "val", BraceText(v))
    \/ \E n \in Names : Start("name", n, "name", n)

\* The call f(cur), r being what it does: returns a value of kind k, or raises.
Call(f, r, k) ==
    /\ Len(calls) < MaxCalls
    /\ \E res \in {r} :
        /\ calls' = Append(calls, f)
        /\ arg' = cur
        /\ exc' = res.exc
        /\ cur' = res.v
        /\ kind' = IF res.exc = "none" THEN k ELSE "raised"
    /\ UNCHANGED <<given, input>>

Call_parse_pp_file ==
    kind = "text" /\ Call("parse_pp_file", parse_pp_file(cur), "points")

Call_parse_anyanyscript ==
    kind = "text" /\ Call("parse_anyanyscript", parse_anyanyscript(cur), "points")

Call_format_anyscript_pointcloud ==
    kind = "points"
    /\ Call("format_anyscript_pointcloud", format_anyscript_pointcloud(cur), "text")

Call_format_anyscript ==
    kind = "points" /\ Call("format_anyscript", format_anyscript(cur), "text")

Call_format_ppfile ==
    kind = "points" /\ Call("format_ppfile", format_ppfile(cur), "text")

Call_parse_anyscript ==
    kind = "val" /\ Call("_parse_anyscript", _parse_anyscript(cur), "value")

Call_sanitize ==
    kind = "name" /\ Call("sanitize", Ok(sanitize(cur)), "name")

Call_convert ==
    kind = "text" /\ calls = <<>> /\ Call("convert", convert(cur), "stdout")

Next ==
    \/ Call_parse_pp_file
    \/ Call_parse_anyanyscript
    \/ Call_format_anyscript_pointcloud
    \/ Call_format_anyscript
    \/ Call_format_ppfile
    \/ Call_parse_anyscript
    \/ Call_sanitize
    \/ Call_convert

Spec == Init /\ [][Next]_vars

Last == IF calls = <<>> THEN "" ELSE calls[Len(calls)]

(***************************************************************************)
(* Properties                                                              *)
(***************************************************************************)
PointTag == <<"p", "o", "i", "n", "t">>

NameAttr == <<"n", "a", "m", "e">>

CommentMarker == <<" ", "/", "/", " ">>

IsAsciiAlnum(c) == c \in AsciiLetter \/ c \in Digit

\* A name that is an AnyScript identifier as it stands.
IdentifierSafe(name) ==
    /\ name # <<>>
    /\ \A i \in 1..Len(name) : IsAsciiAlnum(name[i]) \/ name[i] = "_"

\* Every coordinate of every point is a finite number.
Finite(points) ==
    \A i \in 1..Len(points) : \A j \in 1..3 : IsNum(points[i].val.items[j])

\* C1: the XML round trip.  For a PointSet of any size with unique,
\* identifier-safe names and finite coordinates, parse_pp_file of the text
\* format_ppfile writes returns, without error, the same names in the same
\* order with the same coordinates.
C1_XmlRoundTrip ==
    ( /\ given = "points"
      /\ calls = <<"format_ppfile", "parse_pp_file">>
      /\ \A i \in 1..Len(input) : IdentifierSafe(input[i].key)
      /\ Finite(input) )
    => (exc = "none" /\ cur = input)

\* C2: the AnyScript round trip.  For a PointSet with unique names that
\* sanitization leaves unchanged and finite coordinates, parse_anyanyscript
\* of the text format_anyscript_pointcloud writes returns exactly the
\* original names, in order, each with its original coordinates.
C2_AnyScriptRoundTrip ==
    ( /\ given = "points"
      /\ calls = <<"format_anyscript_pointcloud", "parse_anyanyscript">>
      /\ \A i \in 1..Len(input) : sanitize(input[i].key) = input[i].key
      /\ Finite(input) )
    => (exc = "none" /\ cur = input)

\* The index at which the comment marker " // " first starts in line, 0
\* when it does not occur.
MarkerAt(line) ==
    LET at == {i \in 1..Len(line) : StartsAt(line, CommentMarker, i)}
    IN  IF at = {} THEN 0 ELSE Min(at)

\* C3: the trailing comma.  format_anyscript_pointcloud of n >= 1 points
\* writes exactly n lines, line i for point i (its first coordinate opens
\* the line, its written name closes it); between the closing brace and the
\* comment marker stands a comma on each of the first n - 1 lines and
\* nothing on the last.
C3_TrailingComma ==
    (Last = "format_anyscript_pointcloud" /\ exc = "none")
    => LET lines == splitlines(cur)
           n == Len(arg)
       IN  /\ n >= 1
           /\ Len(lines) = n
           /\ \A i \in 1..n :
                LET b == Find(lines[i], "}", 1)
                    p == MarkerAt(lines[i])
                IN  /\ b > 0
                    /\ p > b
                    /\ SubSeq(lines[i], b + 1, p - 1) = (IF i < n THEN <<",">> ELSE <<>>)
                    /\ startswith(lines[i], <<"{">> \o str(Item(arg[i].val, 0)) \o <<",">>)
                    /\ endswith(lines[i], CommentMarker \o sanitize(arg[i].key) \o <<" ">>)

\* C3 witness: a pointcloud text was written for three points or more.
C3_Witness ==
    Last = "format_anyscript_pointcloud" /\ exc = "none" /\ Len(arg) >= 3

\* C4: parse_pp_file raises (a ValueError) exactly when its input is not
\* well-formed XML: for well-formed input, whatever attributes its point
\* elements carry, it returns.
C4_RaisesOnlyOnMalformedXml ==
    Last = "parse_pp_file"
    => /\ exc \in {"none", "ValueError"}
       /\ (exc # "none") <=> (fromstring(arg).exc # "none")

\* C5: parse_anyanyscript returns a PointSet without raising, for every
\* input text.
C5_LineMatcherNeverRaises ==
    Last = "parse_anyanyscript" => exc = "none"

\* The array arr has the shape of the value x, NaN where x has nan and the
\* number of x everywhere else.
RECURSIVE SameArray(_, _)
SameArray(x, arr) ==
    IF x.t = "list"
    THEN /\ arr.t = "array"
         /\ Len(arr.items) = Len(x.items)
         /\ \A i \in 1..Len(x.items) : SameArray(x.items[i], arr.items[i])
    ELSE IF IsNaN(x) THEN IsNaN(arr)
    ELSE IsNum(arr) /\ arr.m = x.m /\ arr.k = x.k

\* C6: the NaN literal.  _parse_anyscript of a brace-delimited array text
\* whose leaves are decimal numbers or the bare token nan, at any position,
\* yields an array of the same shape with NaN at exactly the nan positions
\* and the numbers elsewhere; no leaf of it is a string.
C6_NanLiteral ==
    (given = "literal" /\ calls = <<"_parse_anyscript">>)
    => (exc = "none" /\ SameArray(input, cur))

\* C7: sanitizer idempotence.  Sanitizing a sanitized name returns it
\* unchanged.
C7_SanitizeIdempotent ==
    (given = "name" /\ Len(calls) >= 2) => cur = arg

\* C7 witness: a name that sanitization changed was sanitized again.
C7_Witness ==
    given = "name" /\ Len(calls) = 2 /\ arg # input /\ cur = arg

\* C8: the sanitizer's character set.  The written name has the length of
\* the original; each ASCII letter and ASCII digit is kept in place and
\* every other character, non-ASCII letters and digits included, is an
\* underscore.
C8_SanitizeAsciiOnly ==
    Last = "sanitize"
    => /\ Len(cur) = Len(arg)
       /\ \A i \in 1..Len(arg) : cur[i] = (IF IsAsciiAlnum(arg[i]) THEN arg[i] ELSE "_")

\* A point element whose x, y and z are all read as numbers.
Survives(e) ==
    \A n \in {<<"x">>, <<"y">>, <<"z">>} :
        HasAttr(e.attrib, n) /\ float(Attr(e.attrib, n)).exc = "none"

\* The surviving point elements of a well-formed document, in document order.
Surviving(data) == SelectSeq(iter(fromstring(data).v, PointTag), Survives)

NameOf(e) == Attr(e.attrib, NameAttr)

Coords(e) ==
    Array("float64", <<float(Attr(e.attrib, <<"x">>)).v, float(Attr(e.attrib, <<"y">>)).v,
                       float(Attr(e.attrib, <<"z">>)).v>>)

\* C9: reader ordering and duplicates.  The PointSet parse_pp_file returns
\* has one entry per distinct name among the surviving point elements; its
\* value is that of the last surviving element of that name, and the keys
\* stand in the order of their first surviving occurrence.
C9_ReaderOrderAndDuplicates ==
    (Last = "parse_pp_file" /\ exc = "none")
    => LET els == Surviving(arg)
           FirstAt(k) == Min({j \in 1..Len(els) : NameOf(els[j]) = k})
           LastAt(k) == Max({j \in 1..Len(els) : NameOf(els[j]) = k})
       IN  /\ {cur[i].key : i \in 1..Len(cur)} = {NameOf(els[j]) : j \in 1..Len(els)}
           /\ Distinct(Keys(cur))
           /\ \A i \in 1..Len(cur) : cur[i].val = Coords(els[LastAt(cur[i].key)])
           /\ \A i, j \in 1..Len(cur) :
                i < j => FirstAt(cur[i].key) < FirstAt(cur[j].key)

\* C9 witness: a name came twice with another name between, and the
\* PointSet returned holds the two names.
C9_Witness ==
    /\ Last = "parse_pp_file"
    /\ exc = "none"
    /\ Len(cur) = 2
    /\ LET els == Surviving(arg)
       IN  /\ Len(els) = 3
           /\ NameOf(els[1]) = NameOf(els[3])
           /\ NameOf(els[1]) # NameOf(els[2])
           /\ Coords(els[1]) # Coords(els[3])

\* C10: the empty PointSet.  format_anyscript_pointcloud of a PointSet with
\* no point returns the empty string without raising.
C10_EmptyPointSet ==
    (Last = "format_anyscript_pointcloud" /\ arg = <<>>)
    => (exc = "none" /\ cur = <<>>)

=============================================================================
